---- MODULE Spec2Model ----
(***************************************************************************)
(* Step wizard of the Stellar stablecoin dApp (src/app/page.tsx, Home),    *)
(* the Stepper it renders (src/components/Stepper.tsx) and the leaf views   *)
(* WalletConnect, CreateTrustline, AssetBalance and PathPayment with the   *)
(* external calls they await and their callbacks into Home.                *)
(*                                                                         *)
(* Two specifications share the state and the handlers:                    *)
(*   Spec     the session as the rendered page drives it: a handler runs   *)
(*            only through a control the current render offers;            *)
(*   CtlSpec  the controller's handlers called directly, in any order,     *)
(*            with the calls the views start when mounted (the handler     *)
(*            contracts).                                                  *)
(***************************************************************************)
EXTENDS Naturals, Integers, Sequences, FiniteSets, TLC

\* ---------------------------------------------------------------- bounds
MaxPending == 2       \* async calls in flight at once, orphans included
MaxRefresh == 2       \* cap of the refresh token

\* ------------------------------------------------------------- constants
order == <<"connect", "trustline", "balance", "payment">>
StepIds == {order[i] : i \in 1..Len(order)}
Addresses == {"GA", "GB"}          \* addresses the wallet bridge reports
NoAddress == ""
ClickArgs == StepIds \cup {"other"} \* goToStep takes any string

VARIABLES
  publicKey,       \* Home: identity value
  refreshKey,      \* Home: refresh token
  currentStep,     \* Home
  completedSteps,  \* Home
  steps,           \* Home: memoised list handed to the Stepper (id -> status)
  wc,              \* WalletConnect instance: [publicKey, loading, error]
  ct,              \* CreateTrustline instance: [loading, trustlineExists, status]
  ab,              \* AssetBalance instance: [loading, balance, error]
  pp,              \* PathPayment instance: [loading, status]
  pend,            \* async calls in flight: <<kind, live>> -> count
  ev               \* last event, its external calls, the Home state it ran in

homeVars == <<publicKey, refreshKey, currentStep, completedSteps>>
vars == <<publicKey, refreshKey, currentStep, completedSteps, steps,
          wc, ct, ab, pp, pend, ev>>

\* ------------------------------------------------------ pure derivations
indexOf(s) == IF s \in StepIds
              THEN (CHOOSE i \in 1..Len(order) : order[i] = s) - 1
              ELSE -1

getStepStatus(stepId, cur, comp) ==
  IF stepId \in comp THEN "done"
  ELSE IF cur = stepId THEN "active"
  ELSE "pending"

computeSteps(cur, comp) ==
  [i \in 1..Len(order) |->
     [id |-> order[i], status |-> getStepStatus(order[i], cur, comp)]]

\* mutant: the dependency list lacks currentStep
memoSteps_NoCurDep(old, curChanged, compChanged, cur, comp) ==
  IF compChanged THEN computeSteps(cur, comp) ELSE old

\* useMemo(..., [currentStep, completedSteps]): recomputed on a dependency change
memoSteps(old, curChanged, compChanged, cur, comp) ==
  IF curChanged \/ compChanged THEN computeSteps(cur, comp) ELSE old

\* mutant: the first step is not gated on the identity
canProceed_Ungated(cur, pk) ==
  CASE cur \in {"connect", "trustline", "balance", "payment"} -> TRUE
    [] OTHER -> FALSE

canProceed(cur, pk) ==
  CASE cur = "connect" -> pk # NoAddress
    [] cur \in {"trustline", "balance", "payment"} -> TRUE
    [] OTHER -> FALSE

\* mutant: "primary flow complete" conflated with "all steps complete"
isFlowComplete_All(comp) == "payment" \in comp

isFlowComplete(comp) == "balance" \in comp

\* mutant: the active step is counted as completed
doneCount_NotPending(st) ==
  Cardinality({i \in 1..Len(st) : st[i].status # "pending"})

\* Stepper: steps.filter(s => s.status === "done").length
doneCount(st) == Cardinality({i \in 1..Len(st) : st[i].status = "done"})

\* Stepper: Math.round((done / steps.length) * 100); the quotient is exact
\* for steps.length = 4, so the rounding is modelled on the scaled integer
progressPercent(st) ==
  LET n == doneCount(st) * 100
      q == n \div Len(st)
      r == n % Len(st)
  IN IF 2 * r >= Len(st) THEN q + 1 ELSE q

\* mutant: pending steps are clickable too
canClick_All(st, i) == st[i].status \in {"done", "active", "pending"}

\* Stepper: canClick = (isDone || isActive) && onStepClick
canClick(st, i) == st[i].status \in {"done", "active"}

\* steps.findIndex(s => s.status === "active"): 0-based, -1 when none
activeIndex(st) ==
  LET act == {i \in 1..Len(st) : st[i].status = "active"}
  IN IF act = {} THEN -1
     ELSE (CHOOSE i \in act : \A j \in act : i <= j) - 1

\* the text under the progress bar
footerLabel(st) ==
  LET a == activeIndex(st)
  IN IF a = Len(st) - 1 /\ st[a + 1].status = "done"
     THEN <<"Flujo completado!">>
     ELSE <<"Paso", a + 1, "de", Len(st)>>

\* ------------------------------------------------- Home's handlers (pure)
\* Each gives the Home state the handler's setState calls produce, and
\* whether a setState call was made with a new value (Home re-renders).

\* mutant: the last step is not marked completed
goNext_NoMarkAtEnd(cur, comp) ==
  LET i == indexOf(cur)
  IN IF i < Len(order) - 1
     THEN [currentStep |-> order[i + 2], completedSteps |-> comp \cup {cur},
           rendered |-> TRUE]
     ELSE [currentStep |-> cur, completedSteps |-> comp, rendered |-> FALSE]

\* mutant: the sequence wraps around at the last step
goNext_Wrap(cur, comp) ==
  LET i == indexOf(cur)
  IN [currentStep |-> order[((i + 1) % Len(order)) + 1],
      completedSteps |-> comp \cup {cur}, rendered |-> TRUE]

goNext(cur, comp) ==
  LET i == indexOf(cur)
  IN IF i < Len(order) - 1
     THEN [currentStep |-> order[i + 2], completedSteps |-> comp \cup {cur},
           rendered |-> TRUE]
     ELSE [currentStep |-> cur, completedSteps |-> comp \cup {cur},
           rendered |-> TRUE]

\* mutant: moving backward un-completes the step that is left
goPrev_Uncomplete(cur, comp) ==
  LET i == indexOf(cur)
  IN IF i > 0
     THEN [currentStep |-> order[i], completedSteps |-> comp \ {cur},
           rendered |-> TRUE]
     ELSE [currentStep |-> cur, completedSteps |-> comp, rendered |-> FALSE]

goPrev(cur, comp) ==
  LET i == indexOf(cur)
  IN IF i > 0
     THEN [currentStep |-> order[i], completedSteps |-> comp, rendered |-> TRUE]
     ELSE [currentStep |-> cur, completedSteps |-> comp, rendered |-> FALSE]

\* mutant: no check that the target is completed or current
goToStep_NoGuard(stepId, cur, comp) ==
  [currentStep |-> stepId, completedSteps |-> comp, rendered |-> stepId # cur]

goToStep(stepId, cur, comp) ==
  IF stepId \in comp \/ stepId = cur
  THEN [currentStep |-> stepId, completedSteps |-> comp,
        rendered |-> stepId # cur]
  ELSE [currentStep |-> cur, completedSteps |-> comp, rendered |-> FALSE]

\* mutant: the identity survives the reset
resetFlow_KeepsKey ==
  [currentStep |-> "connect", completedSteps |-> {}, publicKey |-> publicKey,
   rendered |-> TRUE]

resetFlow ==
  [currentStep |-> "connect", completedSteps |-> {}, publicKey |-> NoAddress,
   rendered |-> TRUE]

handleWalletConnect(key, pk) == [publicKey |-> key, rendered |-> key # pk]

\* mutant: the refresh token moves by two
handleTrustlineSuccess_ByTwo(rk) == [refreshKey |-> rk + 2, rendered |-> TRUE]

handleTrustlineSuccess(rk) == [refreshKey |-> rk + 1, rendered |-> TRUE]

\* ------------------------------------------------ leaf views and rendering
Kinds == {"check", "connect", "trust", "balance", "pay"}
Live == TRUE       \* the call was started by the instance now mounted
Orphan == FALSE    \* the instance that started the call has been unmounted

\* the step whose view starts the calls of a kind
viewOf(k) ==
  CASE k \in {"check", "connect"} -> "connect"
    [] k = "trust" -> "trustline"
    [] k = "balance" -> "balance"
    [] k = "pay" -> "payment"

WcUnmounted == [publicKey |-> NoAddress, loading |-> FALSE, error |-> FALSE]
CtUnmounted == [loading |-> FALSE, trustlineExists |-> FALSE, status |-> ""]
AbUnmounted == [loading |-> FALSE, balance |-> FALSE, error |-> FALSE]
PpUnmounted == [loading |-> FALSE, status |-> ""]
NoText == <<>>     \* message: ''

\* WalletConnect is rendered only on the connect step; its effect
\* (dependency: onConnect, a new function on every render of Home) starts
\* checkConnection on mount and again whenever Home re-renders.
checkStarts(cur2, rendered) ==
  cur2 = "connect" /\ (currentStep # "connect" \/ rendered)

wcAfter(cur2, rendered, wc2) ==
  IF cur2 # "connect" THEN WcUnmounted
  ELSE IF currentStep # "connect" THEN [WcUnmounted EXCEPT !.loading = TRUE]
  ELSE IF rendered THEN [wc2 EXCEPT !.loading = TRUE]
  ELSE wc2

\* CreateTrustline is rendered only on the trustline step, with fresh state
ctAfter(cur2, ct2) ==
  IF cur2 # "trustline" THEN CtUnmounted
  ELSE IF currentStep # "trustline" THEN CtUnmounted
  ELSE ct2

\* PathPayment is rendered only on the payment step, with fresh state
ppAfter(cur2, pp2) ==
  IF cur2 # "payment" THEN PpUnmounted
  ELSE IF currentStep # "payment" THEN PpUnmounted
  ELSE pp2

\* AssetBalance is rendered only on the balance step, with key={refreshKey}:
\* a new refresh token replaces the instance
abRemounts(cur2, rk2) ==
  cur2 = "balance" /\ (currentStep # "balance" \/ rk2 # refreshKey)

\* AssetBalance's effect (dependencies: publicKey, asset) calls fetchBalance
\* when the identity is not empty
fetchStarts(cur2, pk2, rk2) ==
  /\ cur2 = "balance"
  /\ pk2 # NoAddress
  /\ (abRemounts(cur2, rk2) \/ pk2 # publicKey)

abAfter(cur2, pk2, rk2, ab2) ==
  IF cur2 # "balance" THEN AbUnmounted
  ELSE LET base == IF abRemounts(cur2, rk2) THEN AbUnmounted ELSE ab2
       IN IF fetchStarts(cur2, pk2, rk2)
          THEN [base EXCEPT !.loading = TRUE, !.error = FALSE]
          ELSE base

\* the views whose calls end in a callback into Home (onConnect, onSuccess)
callsBack(k) == k \in {"check", "connect", "trust"}

\* Calls of a view that is unmounted keep running without an instance: the
\* setState calls they end with do nothing, their callback still reaches
\* Home. A call of AssetBalance or PathPayment has no callback, so once
\* its instance is gone it cannot change the page and is no longer tracked.
orphaned(p, cur2, rk2) ==
  [x \in DOMAIN p |->
     LET k == x[1]
         gone == /\ currentStep = viewOf(k)
                 /\ \/ cur2 # viewOf(k)
                    \/ k = "balance" /\ rk2 # refreshKey
     IN IF ~gone THEN p[x]
        ELSE IF x[2] = Live THEN 0
        ELSE IF ~callsBack(k) THEN p[x]
        ELSE p[<<k, Live>>] + p[<<k, Orphan>>]]

pendAfter(p, cur2, pk2, rk2, rendered) ==
  LET q == orphaned(p, cur2, rk2)
      c == IF checkStarts(cur2, rendered) THEN 1 ELSE 0
      f == IF fetchStarts(cur2, pk2, rk2) THEN 1 ELSE 0
  IN [x \in DOMAIN q |->
        IF x = <<"check", Live>> THEN q[x] + c
        ELSE IF x = <<"balance", Live>> THEN q[x] + f
        ELSE q[x]]

inFlight(p) ==
  p[<<"check", Live>>] + p[<<"check", Orphan>>]
    + p[<<"connect", Live>>] + p[<<"connect", Orphan>>]
    + p[<<"trust", Live>>] + p[<<"trust", Orphan>>]
    + p[<<"balance", Live>>] + p[<<"balance", Orphan>>]
    + p[<<"pay", Live>>] + p[<<"pay", Orphan>>]

\* the state of Home and of the mounted views as records
HomeNow == [currentStep |-> currentStep, completedSteps |-> completedSteps,
            publicKey |-> publicKey, refreshKey |-> refreshKey]
\* msg: the message of the status an event sets in its view, if it sets one
ViewsNow == [wc |-> wc, ct |-> ct, ab |-> ab, pp |-> pp, msg |-> NoText]

\* One event: the handler's state updates, then the render they cause
\* (memoised steps, mounts and unmounts, the effects of the views).
\* h: Home after the setState calls; rendered: Home re-renders;
\* v: the views after their own setState calls; p: calls in flight;
\* effects: the external calls the event's code has made, in order.
\* ev.live: the event is not the completion of an orphaned call.
Commit(op, arg, effects, h, rendered, v, p) ==
  LET p2 == pendAfter(p, h.currentStep, h.publicKey, h.refreshKey, rendered)
  IN /\ inFlight(p2) <= MaxPending
     /\ h.refreshKey <= MaxRefresh
     /\ currentStep' = h.currentStep
     /\ completedSteps' = h.completedSteps
     /\ publicKey' = h.publicKey
     /\ refreshKey' = h.refreshKey
     /\ steps' = memoSteps(steps, h.currentStep # currentStep,
                           h.completedSteps # completedSteps,
                           h.currentStep, h.completedSteps)
     /\ wc' = wcAfter(h.currentStep, rendered, v.wc)
     /\ ct' = ctAfter(h.currentStep, v.ct)
     /\ ab' = abAfter(h.currentStep, h.publicKey, h.refreshKey, v.ab)
     /\ pp' = ppAfter(h.currentStep, v.pp)
     /\ pend' = p2
     /\ ev' = [op |-> op, arg |-> arg, effects |-> effects,
               checkStarted |-> checkStarts(h.currentStep, rendered),
               live |-> \A k \in Kinds : p[<<k, Orphan>>] = pend[<<k, Orphan>>],
               message |-> v.msg,
               currentStep |-> currentStep,
               completedSteps |-> completedSteps, publicKey |-> publicKey,
               refreshKey |-> refreshKey]

Init ==
  /\ publicKey = NoAddress
  /\ refreshKey = 0
  /\ currentStep = "connect"
  /\ completedSteps = {}
  /\ steps = computeSteps("connect", {})
  /\ wc = [WcUnmounted EXCEPT !.loading = TRUE]
  /\ ct = CtUnmounted
  /\ ab = AbUnmounted
  /\ pp = PpUnmounted
  /\ pend = [x \in Kinds \X {Live, Orphan} |->
              IF x = <<"check", Live>> THEN 1 ELSE 0]
  /\ ev = [op |-> "init", arg |-> "", effects |-> <<>>, checkStarted |-> TRUE,
           live |-> TRUE, message |-> NoText,
           currentStep |-> "connect", completedSteps |-> {},
           publicKey |-> NoAddress, refreshKey |-> 0]

\* ------------------------------------------------- handlers as actions
DoGoNext ==
  LET r == goNext(currentStep, completedSteps)
  IN Commit("goNext", "", <<>>,
            [HomeNow EXCEPT !.currentStep = r.currentStep,
                            !.completedSteps = r.completedSteps],
            r.rendered, ViewsNow, pend)

DoGoPrev ==
  LET r == goPrev(currentStep, completedSteps)
  IN Commit("goPrev", "", <<>>,
            [HomeNow EXCEPT !.currentStep = r.currentStep,
                            !.completedSteps = r.completedSteps],
            r.rendered, ViewsNow, pend)

DoGoToStep(stepId) ==
  LET r == goToStep(stepId, currentStep, completedSteps)
  IN Commit("goToStep", stepId, <<>>,
            [HomeNow EXCEPT !.currentStep = r.currentStep,
                            !.completedSteps = r.completedSteps],
            r.rendered, ViewsNow, pend)

DoResetFlow ==
  LET r == resetFlow
  IN Commit("resetFlow", "", <<>>,
            [HomeNow EXCEPT !.currentStep = r.currentStep,
                            !.completedSteps = r.completedSteps,
                            !.publicKey = r.publicKey],
            r.rendered, ViewsNow, pend)

DoHandleWalletConnect(key) ==
  LET r == handleWalletConnect(key, publicKey)
  IN Commit("handleWalletConnect", key, <<>>,
            [HomeNow EXCEPT !.publicKey = r.publicKey],
            r.rendered, ViewsNow, pend)

DoHandleTrustlineSuccess ==
  LET r == handleTrustlineSuccess(refreshKey)
  IN Commit("handleTrustlineSuccess", "", <<>>,
            [HomeNow EXCEPT !.refreshKey = r.refreshKey],
            r.rendered, ViewsNow, pend)

\* ---------------------------------------------- controls of the render
\* "Continuar" exists on connect (disabled={!canProceed()}), trustline and
\* balance; the payment view has only "Atras" and "Reiniciar".
ContinuarEnabled ==
  \/ currentStep = "connect" /\ canProceed(currentStep, publicKey)
  \/ currentStep \in {"trustline", "balance"}

AtrasOffered == currentStep \in {"trustline", "balance", "payment"}

ReiniciarOffered == currentStep = "payment"

ConectarEnabled ==
  currentStep = "connect" /\ wc.publicKey = NoAddress /\ ~wc.loading

CrearTrustlineEnabled ==
  currentStep = "trustline" /\ ~ct.loading /\ ~ct.trustlineExists

RefrescarEnabled ==
  currentStep = "balance" /\ ~ab.loading /\ publicKey # NoAddress

\* disabled={loading || !amount}: the amount field is not empty
EnviarEnabled == currentStep = "payment" /\ ~pp.loading

ClickContinuar == ContinuarEnabled /\ DoGoNext

ClickAtras == AtrasOffered /\ DoGoPrev

ClickReiniciar == ReiniciarOffered /\ DoResetFlow

\* Stepper: onClick={() => canClick && onStepClick(step.id)}
ClickStep ==
  \E i \in 1..Len(order) : canClick(steps, i) /\ DoGoToStep(steps[i].id)

\* ------------------------------------------------------- WalletConnect
\* connectWallet up to its await of requestAccess()
ClickConectar ==
  /\ ConectarEnabled
  /\ Commit("connectWallet", "", <<>>, HomeNow, FALSE,
            [ViewsNow EXCEPT !.wc = [wc EXCEPT !.loading = TRUE,
                                               !.error = FALSE]],
            [pend EXCEPT ![<<"connect", Live>>] = @ + 1])

\* what the bridge can answer to checkConnection (isConnected, getAddress)
\* and to connectWallet (requestAccess): an address, or a failure
CheckReplies == Addresses \cup {"notConnected", "error", NoAddress, "throws"}
AccessReplies == Addresses \cup {"error", "throws"}

\* mutant: a failed wallet call reports an empty address to onConnect
walletAnswer_CallsBackEmpty(live, reply, manual) ==
  IF reply \in Addresses
  THEN [wc |-> IF live THEN [wc EXCEPT !.publicKey = reply, !.loading = FALSE]
               ELSE wc,
        home |-> handleWalletConnect(reply, publicKey)]
  ELSE [wc |-> IF live
               THEN [wc EXCEPT !.loading = FALSE,
                               !.error = IF manual THEN TRUE ELSE @]
               ELSE wc,
        home |-> handleWalletConnect(NoAddress, publicKey)]

\* the code after the awaits: only an address reaches onConnect
walletAnswer(live, reply, manual) ==
  IF reply \in Addresses
  THEN [wc |-> IF live THEN [wc EXCEPT !.publicKey = reply, !.loading = FALSE]
               ELSE wc,
        home |-> handleWalletConnect(reply, publicKey)]
  ELSE [wc |-> IF live
               THEN [wc EXCEPT !.loading = FALSE,
                               !.error = IF manual THEN TRUE ELSE @]
               ELSE wc,
        home |-> [publicKey |-> publicKey, rendered |-> FALSE]]

\* checkConnection from its awaits of isConnected() / getAddress() on
CheckDone ==
  \E live \in {Live, Orphan}, reply \in CheckReplies :
    /\ pend[<<"check", live>>] > 0
    /\ LET r == walletAnswer(live, reply, FALSE)
       IN Commit("checkConnection", reply, <<>>,
                 [HomeNow EXCEPT !.publicKey = r.home.publicKey],
                 r.home.rendered, [ViewsNow EXCEPT !.wc = r.wc],
                 [pend EXCEPT ![<<"check", live>>] = @ - 1])

\* connectWallet from its await of requestAccess() on
ConnectDone ==
  \E live \in {Live, Orphan}, reply \in AccessReplies :
    /\ pend[<<"connect", live>>] > 0
    /\ LET r == walletAnswer(live, reply, TRUE)
       IN Commit("connectWalletDone", reply, <<>>,
                 [HomeNow EXCEPT !.publicKey = r.home.publicKey],
                 r.home.rendered, [ViewsNow EXCEPT !.wc = r.wc],
                 [pend EXCEPT ![<<"connect", live>>] = @ - 1])

\* ------------------------------------------------------ external replies
\* One invocation of createTrustline or sendPathPayment is driven by what
\* the wallet bridge, the ledger gateway and the database answer to the
\* calls it awaits; NotAsked marks a call the invocation never makes.
NotAsked == "-"
Hashes == {"h1", "h2"}
\* getAddress() inside an action: the account now active in the wallet,
\* an error, or no address
AddressReplies == {"GA", "error", NoAddress}

\* one external call as the services see it
call(name, table, user, hash, dest) ==
  [call |-> name, table |-> table, user |-> user, hash |-> hash,
   dest |-> dest]

when(cond, c) == IF cond THEN <<c>> ELSE <<>>

\* A text is a sequence of pieces (words, or whole fixed phrases);
\* String.prototype.includes is the search for a run of pieces.
includes(text, part) ==
  \E i \in 1..(Len(text) + 1 - Len(part)) :
    SubSeq(text, i, i + Len(part) - 1) = part

Undefined == "undefined"

\* What the awaited calls can answer besides success. The wallet bridge
\* reports an error text; the ledger gateway rejects with an HTTP error
\* that carries an operation result code, only a transaction result code
\* ("tx_bad_seq"), a body without result codes ("404"), or no body at all
\* ("400", "fails").
SignFailures == {"declined", "rejected", "error"}
LoadFailures == {"404", "fails"}
TrustCodes == {"op_low_reserve", "op_line_full", "op_malformed"}
PayCodes == {"op_no_destination", "op_no_trust", "op_under_dest_min",
             "op_over_source_max", "op_underfunded", "op_src_no_trust"}
OtherFailures == {"tx_bad_seq", "400", "fails"}

signText(reply) ==
  CASE reply = "declined" -> <<"User", "declined", "access">>
    [] reply = "rejected" -> <<"User", "rejected", "the", "request">>
    [] OTHER -> <<"Wallet", "is", "locked">>

Msg400 == <<"Request failed with status code 400">>

\* the Error objects that reach the catch blocks: message and, for the
\* ledger gateway's rejections, what response.data holds
errPlain(text) == [message |-> text, response |-> "none"]

errLedger(reply) ==
  [message |-> CASE reply = "fails" -> <<"Network Error">>
                 [] reply = "404" -> <<"Request failed with status code 404">>
                 [] OTHER -> Msg400,
   response |-> CASE reply \in {"fails", "400"} -> "none"
                  [] reply = "404" -> "data"
                  [] reply = "tx_bad_seq" -> "codes"
                  [] OTHER -> reply]

\* err.response.data.extras?.result_codes?.operations?.[0]
resultCode(err) ==
  IF err.response \in {"none", "data", "codes"} THEN Undefined
  ELSE err.response

\* the error thrown by the first call of an invocation that fails
thrown(s) ==
  CASE s.address = "error" ->
         errPlain(<<"Freighter", "is", "not", "available">>)
    [] s.address = NoAddress ->
         errPlain(<<"No se pudo obtener la public key. Esta Freighter conectado?">>)
    [] s.load \in LoadFailures -> errLedger(s.load)
    [] s.sign \in SignFailures -> errPlain(signText(s.sign))
    [] OTHER -> errLedger(s.submit)

\* ------------------------------------------------------ CreateTrustline
\* createTrustline up to its await of getAddress()
ClickCrearTrustline ==
  /\ CrearTrustlineEnabled
  /\ Commit("createTrustline", "", <<>>, HomeNow, FALSE,
            [ViewsNow EXCEPT !.ct = [ct EXCEPT !.loading = TRUE,
                                               !.status = ""]],
            [pend EXCEPT ![<<"trust", Live>>] = @ + 1])

\* mutant: only the ledger is asked; a row in the database does not count
checkExistingTrustline_ChainOnly(s) ==
  [exists |-> s.chain = "has",
   asksSelect |-> s.chain = "hasnot"]

\* on-chain match, else a row in the database; every failure of the check
\* counts as "does not exist"
checkExistingTrustline(s) ==
  [exists |-> \/ s.chain = "has"
              \/ s.chain = "hasnot" /\ s.select = "row",
   asksSelect |-> s.chain = "hasnot"]

\* the calls one invocation makes, given the replies
trustAsks(s) ==
  LET hasKey == s.address \in Addresses
      chk == checkExistingTrustline(s)
      load == hasKey /\ ~chk.exists
      sign == load /\ s.load = "ok"
      submit == sign /\ s.sign = "ok"
  IN [chain |-> hasKey, select |-> hasKey /\ chk.asksSelect, load |-> load,
      sign |-> sign, submit |-> submit,
      insert |-> submit /\ s.submit \in Hashes]

TrustScripts ==
  {s \in [address : AddressReplies,
          chain : {"has", "hasnot", "throws", NotAsked},
          select : {"row", "norow", "error", NotAsked},
          load : {"ok", NotAsked} \cup LoadFailures,
          sign : {"ok", NotAsked} \cup SignFailures,
          submit : Hashes \cup TrustCodes \cup {"op_no_trust"}
                     \cup OtherFailures \cup {NotAsked},
          insert : {"ok", "error", NotAsked}] :
     LET a == trustAsks(s)
     IN /\ (s.chain = NotAsked) <=> ~a.chain
        /\ (s.select = NotAsked) <=> ~a.select
        /\ (s.load = NotAsked) <=> ~a.load
        /\ (s.sign = NotAsked) <=> ~a.sign
        /\ (s.submit = NotAsked) <=> ~a.submit
        /\ (s.insert = NotAsked) <=> ~a.insert}

TrustOutcomes == {"success", "warning", "error"}

\* the texts of createTrustline; ErrorMark is the sign every error
\* message starts with
ErrorMark == "(x)"
TrustRejectedText == <<"Rechazaste la transaccion en Freighter">>
TrustWarningText ==
  <<"Ya tienes una trustline para USDC. No necesitas crear otra.">>
TrustSuccessText ==
  <<"Trustline creada exitosamente! Ahora puedes recibir USDC.">>
GenericText(code) == <<"Error de Stellar:", code>>

trustCodeText(code) ==
  CASE code = "op_low_reserve" ->
         <<"Balance insuficiente. Necesitas al menos 0.5 XLM mas.">>
    [] code = "op_line_full" -> <<"Ya tienes la trustline creada.">>
    [] code = "op_malformed" ->
         <<"Error en la construccion de la transaccion. Verifica el asset.">>

\* mutant: op_line_full is not among the codes with a message of their own
createTrustlineCatch_NoLineFull(err) ==
  LET rc == resultCode(err)
      errorMessage ==
        IF includes(err.message, <<"User", "declined">>) THEN TrustRejectedText
        ELSE IF includes(err.message, <<"User", "rejected">>)
             THEN TrustRejectedText
        ELSE IF err.response # "none"
             THEN IF rc \in TrustCodes \ {"op_line_full"} THEN trustCodeText(rc)
                  ELSE GenericText(IF rc # Undefined THEN rc
                                   ELSE "Desconocido")
        ELSE IF err.message = Msg400
             THEN <<"Error al procesar la transaccion firmada. Verifica el formato del XDR.">>
        ELSE err.message
  IN <<ErrorMark>> \o errorMessage

\* the catch block of createTrustline: the message it puts in status
createTrustlineCatch(err) ==
  LET rc == resultCode(err)
      errorMessage ==
        IF includes(err.message, <<"User", "declined">>) THEN TrustRejectedText
        ELSE IF includes(err.message, <<"User", "rejected">>)
             THEN TrustRejectedText
        ELSE IF err.response # "none"
             THEN IF rc \in TrustCodes THEN trustCodeText(rc)
                  ELSE GenericText(IF rc # Undefined THEN rc
                                   ELSE "Desconocido")
        ELSE IF err.message = Msg400
             THEN <<"Error al procesar la transaccion firmada. Verifica el formato del XDR.">>
        ELSE err.message
  IN <<ErrorMark>> \o errorMessage

\* mutant: a failed database insert is thrown into the catch block
createTrustline_DbThrows(s) ==
  LET a == trustAsks(s)
      ok == a.insert /\ s.insert = "ok"
      exists == a.chain /\ checkExistingTrustline(s).exists
  IN [status |-> IF exists THEN "warning"
                 ELSE IF ok THEN "success" ELSE "error",
      message |-> IF exists THEN TrustWarningText
                  ELSE IF ok THEN TrustSuccessText
                  ELSE IF a.insert
                       THEN createTrustlineCatch(errPlain(<<"insert", "failed">>))
                  ELSE createTrustlineCatch(thrown(s)),
      trustlineExists |-> exists \/ ok,
      onSuccess |-> ok,
      effects |->
        <<call("getAddress", "", "", "", "")>>
        \o when(a.chain, call("loadAccount", "", s.address, "", ""))
        \o when(a.select, call("select", "trustlines", s.address, "", ""))
        \o when(a.load, call("loadAccount", "", s.address, "", ""))
        \o when(a.sign, call("signTransaction", "", s.address, "", ""))
        \o when(a.submit, call("submitTransaction", "", s.address,
                               IF s.submit \in Hashes THEN s.submit ELSE "",
                               ""))
        \o when(a.insert, call("insert", "trustlines", s.address,
                               s.submit, ""))]

\* createTrustline from its await of getAddress() on: the status it ends
\* with, whether it sets trustlineExists and calls onSuccess, and the
\* external calls it makes in order
createTrustline(s) ==
  LET a == trustAsks(s)
      exists == a.chain /\ checkExistingTrustline(s).exists
  IN [status |-> IF exists THEN "warning"
                 ELSE IF a.insert THEN "success" ELSE "error",
      message |-> IF exists THEN TrustWarningText
                  ELSE IF a.insert THEN TrustSuccessText
                  ELSE createTrustlineCatch(thrown(s)),
      trustlineExists |-> exists \/ a.insert,
      onSuccess |-> a.insert,
      effects |->
        <<call("getAddress", "", "", "", "")>>
        \o when(a.chain, call("loadAccount", "", s.address, "", ""))
        \o when(a.select, call("select", "trustlines", s.address, "", ""))
        \o when(a.load, call("loadAccount", "", s.address, "", ""))
        \o when(a.sign, call("signTransaction", "", s.address, "", ""))
        \o when(a.submit, call("submitTransaction", "", s.address,
                               IF s.submit \in Hashes THEN s.submit ELSE "",
                               ""))
        \o when(a.insert, call("insert", "trustlines", s.address,
                               s.submit, ""))]

\* mutant: onSuccess is wired to advance the wizard as well
trustAnswer_Advances(live, s) ==
  LET r == createTrustline(s)
      n == goNext(currentStep, completedSteps)
  IN [ct |-> IF live
             THEN [loading |-> FALSE,
                   trustlineExists |-> ct.trustlineExists \/ r.trustlineExists,
                   status |-> r.status]
             ELSE ct,
      msg |-> IF live THEN r.message ELSE NoText,
      home |-> IF r.onSuccess
               THEN [HomeNow EXCEPT
                       !.refreshKey = handleTrustlineSuccess(refreshKey).refreshKey,
                       !.currentStep = n.currentStep,
                       !.completedSteps = n.completedSteps]
               ELSE HomeNow,
      rendered |-> r.onSuccess,
      effects |-> r.effects]

\* setState of an unmounted instance does nothing; onSuccess still reaches
\* Home, where it is handleTrustlineSuccess
trustAnswer(live, s) ==
  LET r == createTrustline(s)
  IN [ct |-> IF live
             THEN [loading |-> FALSE,
                   trustlineExists |-> ct.trustlineExists \/ r.trustlineExists,
                   status |-> r.status]
             ELSE ct,
      msg |-> IF live THEN r.message ELSE NoText,
      home |-> IF r.onSuccess
               THEN [HomeNow EXCEPT
                       !.refreshKey = handleTrustlineSuccess(refreshKey).refreshKey]
               ELSE HomeNow,
      rendered |-> r.onSuccess /\ handleTrustlineSuccess(refreshKey).rendered,
      effects |-> r.effects]

TrustDoneWith(live, s) ==
  /\ pend[<<"trust", live>>] > 0
  /\ LET r == trustAnswer(live, s)
     IN Commit("createTrustlineDone", s, r.effects, r.home, r.rendered,
               [ViewsNow EXCEPT !.ct = r.ct, !.msg = r.msg],
               [pend EXCEPT ![<<"trust", live>>] = @ - 1])

TrustDone ==
  \E live \in {Live, Orphan}, s \in TrustScripts : TrustDoneWith(live, s)

\* -------------------------------------------------------- AssetBalance
\* the refresh button: fetchBalance up to its await of loadAccount()
ClickRefrescar ==
  /\ RefrescarEnabled
  /\ Commit("fetchBalance", "", <<>>, HomeNow, FALSE,
            [ViewsNow EXCEPT !.ab = [ab EXCEPT !.loading = TRUE,
                                               !.error = FALSE]],
            [pend EXCEPT ![<<"balance", Live>>] = @ + 1])

BalanceReplies == {"balances", "404", "fails"}

\* fetchBalance from its await of loadAccount() on
balanceAnswer(reply) ==
  IF reply = "balances"
  THEN [ab EXCEPT !.balance = TRUE, !.loading = FALSE]
  ELSE [ab EXCEPT !.error = TRUE, !.loading = FALSE]

BalanceDone ==
  \E reply \in BalanceReplies :
    /\ pend[<<"balance", Live>>] > 0
    /\ Commit("fetchBalanceDone", reply,
              <<call("loadAccount", "", "", "", "")>>, HomeNow, FALSE,
              [ViewsNow EXCEPT !.ab = balanceAnswer(reply)],
              [pend EXCEPT ![<<"balance", Live>>] = @ - 1])

\* --------------------------------------------------------- PathPayment
\* what the amount field can hold when the button is enabled, and the
\* number parseFloat reads from it
Amounts == {"0", "-1", "5"}
parseFloat(a) == CASE a = "0" -> 0 [] a = "-1" -> 0 - 1 [] a = "5" -> 5

amountValid(a) == ~(a = "" \/ parseFloat(a) <= 0)

\* the texts of sendPathPayment
PayRejectedText == <<"Rechazaste la transaccion">>
PaySuccessText(hash) == <<"Path Payment exitoso! Hash:", hash>>
AmountText == <<"Ingresa una cantidad valida">>

payCodeText(code) ==
  CASE code = "op_no_destination" -> <<"La cuenta destino no existe">>
    [] code = "op_no_trust" ->
         <<"El destino no tiene trustline para ese asset">>
    [] code = "op_under_dest_min" ->
         <<"No hay suficiente liquidez en el DEX">>
    [] code = "op_over_source_max" -> <<"Cantidad insuficiente">>
    [] code = "op_underfunded" -> <<"Balance insuficiente">>
    [] code = "op_src_no_trust" ->
         <<"No tienes trustline para el asset origen">>

\* mutant: only 'User declined' is taken for a refusal of the signature
sendPathPaymentCatch_DeclinedOnly(err) ==
  LET code == resultCode(err)
      errorMessage ==
        IF includes(err.message, <<"User", "declined">>) THEN PayRejectedText
        ELSE IF err.response \notin {"none", "data"}
             THEN IF code \in PayCodes THEN payCodeText(code)
                  ELSE GenericText(code)
        ELSE err.message
  IN <<ErrorMark>> \o errorMessage

\* the catch block of sendPathPayment: the message it puts in status
sendPathPaymentCatch(err) ==
  LET code == resultCode(err)
      errorMessage ==
        IF includes(err.message, <<"User", "declined">>) THEN PayRejectedText
        ELSE IF includes(err.message, <<"User", "rejected">>)
             THEN PayRejectedText
        ELSE IF err.response \notin {"none", "data"}
             THEN IF code \in PayCodes THEN payCodeText(code)
                  ELSE GenericText(code)
        ELSE err.message
  IN <<ErrorMark>> \o errorMessage

\* sendPathPayment up to its await of getAddress(); an invalid amount
\* throws before any await, so catch and finally run in the same event
ClickEnviar ==
  \E a \in Amounts :
    /\ EnviarEnabled
    /\ IF amountValid(a)
       THEN Commit("sendPathPayment", a, <<>>, HomeNow, FALSE,
                   [ViewsNow EXCEPT !.pp = [loading |-> TRUE, status |-> ""]],
                   [pend EXCEPT ![<<"pay", Live>>] = @ + 1])
       ELSE Commit("sendPathPayment", a, <<>>, HomeNow, FALSE,
                   [ViewsNow EXCEPT
                      !.pp = [loading |-> FALSE, status |-> "error"],
                      !.msg = sendPathPaymentCatch(errPlain(AmountText))],
                   pend)

payAsks(s) ==
  LET load == s.address \in Addresses
      sign == load /\ s.load = "ok"
      submit == sign /\ s.sign = "ok"
  IN [load |-> load, sign |-> sign, submit |-> submit,
      insert |-> submit /\ s.submit \in Hashes]

\* destination: the destination field when the invocation started
PayScripts ==
  {s \in [destination : {NoAddress, "GB"},
          address : AddressReplies,
          load : {"ok", NotAsked} \cup LoadFailures,
          sign : {"ok", NotAsked} \cup SignFailures,
          submit : Hashes \cup PayCodes \cup {"op_malformed"}
                     \cup OtherFailures \cup {NotAsked},
          insert : {"ok", "error", NotAsked}] :
     LET a == payAsks(s)
     IN /\ (s.load = NotAsked) <=> ~a.load
        /\ (s.sign = NotAsked) <=> ~a.sign
        /\ (s.submit = NotAsked) <=> ~a.submit
        /\ (s.insert = NotAsked) <=> ~a.insert}

\* mutant: the destination field is used as it is
destKey_FieldOnly(destination, key) == destination

\* const destKey = destination || publicKey
destKey(destination, key) == IF destination # "" THEN destination ELSE key

\* mutant: the row is written whether or not the ledger accepted
sendPathPayment_RecordsAttempt(s) ==
  LET a == payAsks(s)
  IN [status |-> IF a.insert THEN "success" ELSE "error",
      message |-> IF a.insert THEN PaySuccessText(s.submit)
                  ELSE sendPathPaymentCatch(thrown(s)),
      effects |->
        <<call("getAddress", "", "", "", "")>>
        \o when(a.load, call("loadAccount", "", s.address, "", ""))
        \o when(a.sign, call("signTransaction", "", s.address, "",
                             destKey(s.destination, s.address)))
        \o when(a.submit, call("submitTransaction", "", s.address,
                               IF s.submit \in Hashes THEN s.submit ELSE "",
                               destKey(s.destination, s.address)))
        \o when(a.submit, call("insert", "transactions", s.address,
                               IF s.submit \in Hashes THEN s.submit ELSE "",
                               ""))]

\* sendPathPayment from its await of getAddress() on: the status it ends
\* with and the external calls it makes in order
sendPathPayment(s) ==
  LET a == payAsks(s)
  IN [status |-> IF a.insert THEN "success" ELSE "error",
      message |-> IF a.insert THEN PaySuccessText(s.submit)
                  ELSE sendPathPaymentCatch(thrown(s)),
      effects |->
        <<call("getAddress", "", "", "", "")>>
        \o when(a.load, call("loadAccount", "", s.address, "", ""))
        \o when(a.sign, call("signTransaction", "", s.address, "",
                             destKey(s.destination, s.address)))
        \o when(a.submit, call("submitTransaction", "", s.address,
                               IF s.submit \in Hashes THEN s.submit ELSE "",
                               destKey(s.destination, s.address)))
        \o when(a.insert, call("insert", "transactions", s.address,
                               s.submit, ""))]

\* mutant: setLoading(false) only on the success path, not in a finally
payAnswer_NoFinally(s) ==
  [loading |-> sendPathPayment(s).status # "success",
   status |-> sendPathPayment(s).status]

payAnswer(s) == [loading |-> FALSE, status |-> sendPathPayment(s).status]

PayDoneWith(s) ==
  /\ pend[<<"pay", Live>>] > 0
  /\ Commit("sendPathPaymentDone", s, sendPathPayment(s).effects,
            HomeNow, FALSE,
            [ViewsNow EXCEPT
               !.pp = payAnswer(s),
               !.msg = sendPathPayment(s).message],
            [pend EXCEPT ![<<"pay", Live>>] = @ - 1])

PayDone == \E s \in PayScripts : PayDoneWith(s)

\* ------------------------------------------------------- specifications
Next ==
  \/ ClickContinuar
  \/ ClickAtras
  \/ ClickReiniciar
  \/ ClickStep
  \/ ClickConectar
  \/ CheckDone
  \/ ConnectDone
  \/ ClickCrearTrustline
  \/ TrustDone
  \/ ClickRefrescar
  \/ BalanceDone
  \/ ClickEnviar
  \/ PayDone

Spec == Init /\ [][Next]_vars

\* The session in which every external call of createTrustline and
\* sendPathPayment returns: the call of a mounted view does not stay in
\* flight forever. A mounted view has at most one call in flight and every
\* answer ends it, so weak fairness of one answer says the same as weak
\* fairness of all of them; the answers that do arrive are still any of
\* TrustScripts and PayScripts. The answer taken is getAddress reporting
\* an error, and TrustReturns and PayReturns are TrustDoneWith and
\* PayDoneWith for it, written out: nothing is rendered anew, nothing
\* mounts, only the view and the count of calls change.
TrustErrorReply ==
  [address |-> "error", chain |-> NotAsked, select |-> NotAsked,
   load |-> NotAsked, sign |-> NotAsked, submit |-> NotAsked,
   insert |-> NotAsked]

PayErrorReply ==
  [destination |-> NoAddress, address |-> "error", load |-> NotAsked,
   sign |-> NotAsked, submit |-> NotAsked, insert |-> NotAsked]

TrustReturns ==
  /\ pend[<<"trust", Live>>] > 0
  /\ ct' = [ct EXCEPT !.loading = FALSE, !.status = "error"]
  /\ pend' = [pend EXCEPT ![<<"trust", Live>>] = @ - 1]
  /\ ev' = [op |-> "createTrustlineDone", arg |-> TrustErrorReply,
            effects |-> createTrustline(TrustErrorReply).effects,
            checkStarted |-> FALSE, live |-> TRUE,
            message |-> createTrustline(TrustErrorReply).message,
            currentStep |-> currentStep, completedSteps |-> completedSteps,
            publicKey |-> publicKey, refreshKey |-> refreshKey]
  /\ UNCHANGED <<publicKey, refreshKey, currentStep, completedSteps, steps,
                 wc, ab, pp>>

PayReturns ==
  /\ pend[<<"pay", Live>>] > 0
  /\ pp' = [loading |-> FALSE, status |-> "error"]
  /\ pend' = [pend EXCEPT ![<<"pay", Live>>] = @ - 1]
  /\ ev' = [op |-> "sendPathPaymentDone", arg |-> PayErrorReply,
            effects |-> sendPathPayment(PayErrorReply).effects,
            checkStarted |-> FALSE, live |-> TRUE,
            message |-> sendPathPayment(PayErrorReply).message,
            currentStep |-> currentStep, completedSteps |-> completedSteps,
            publicKey |-> publicKey, refreshKey |-> refreshKey]
  /\ UNCHANGED <<publicKey, refreshKey, currentStep, completedSteps, steps,
                 wc, ct, ab>>

FairSpec == Spec /\ WF_vars(TrustReturns) /\ WF_vars(PayReturns)

\* TrustReturns and PayReturns are the answers they are said to be
ReturnsAreAnswers ==
  [][/\ TrustReturns <=> TrustDoneWith(Live, TrustErrorReply)
     /\ PayReturns <=> PayDoneWith(PayErrorReply)]_vars

\* The handlers called directly, as the controller's contract allows
\* (handleWalletConnect and handleTrustlineSuccess stand for the callbacks
\* of the views), and the completion of the calls that mounting a view
\* starts.
CallGoNext == DoGoNext
CallGoPrev == DoGoPrev
CallGoToStep == \E stepId \in ClickArgs : DoGoToStep(stepId)
CallResetFlow == DoResetFlow
CallHandleWalletConnect ==
  \E key \in Addresses \cup {NoAddress} : DoHandleWalletConnect(key)
CallHandleTrustlineSuccess == DoHandleTrustlineSuccess

CtlNext ==
  \/ CallGoNext
  \/ CallGoPrev
  \/ CallGoToStep
  \/ CallResetFlow
  \/ CallHandleWalletConnect
  \/ CallHandleTrustlineSuccess
  \/ CheckDone
  \/ BalanceDone

CtlSpec == Init /\ [][CtlNext]_vars

TypeOK ==
  /\ publicKey \in Addresses \cup {NoAddress}
  /\ refreshKey \in 0..MaxRefresh
  /\ currentStep \in StepIds
  /\ completedSteps \subseteq StepIds
  /\ wc \in [publicKey : Addresses \cup {NoAddress}, loading : BOOLEAN,
             error : BOOLEAN]
  /\ ct \in [loading : BOOLEAN, trustlineExists : BOOLEAN,
             status : TrustOutcomes \cup {""}]
  /\ ab \in [loading : BOOLEAN, balance : BOOLEAN, error : BOOLEAN]
  /\ pp \in [loading : BOOLEAN, status : {"", "success", "error"}]
  /\ \A x \in Kinds \X {Live, Orphan} : pend[x] \in 0..MaxPending
  /\ inFlight(pend) <= MaxPending

\* ================================================================ claims
\* the order of the steps, written out for the statements below
SuccOf == [s \in {"connect", "trustline", "balance"} |->
             CASE s = "connect" -> "trustline"
               [] s = "trustline" -> "balance"
               [] s = "balance" -> "payment"]
PredOf == [s \in {"trustline", "balance", "payment"} |->
             CASE s = "trustline" -> "connect"
               [] s = "balance" -> "trustline"
               [] s = "payment" -> "balance"]
PosOf == [s \in StepIds |->
             CASE s = "connect" -> 1
               [] s = "trustline" -> 2
               [] s = "balance" -> 3
               [] s = "payment" -> 4]

\* C1: advance (goNext), from any state, adds the pre-state currentStep to
\* completedSteps and changes nothing else in it; currentStep becomes its
\* successor in the order, or stays payment at the end, where an advance
\* applied to the result changes neither currentStep nor completedSteps.
C1_Advance ==
  ev.op = "goNext" =>
    /\ completedSteps = ev.completedSteps \cup {ev.currentStep}
    /\ ev.currentStep # "payment" => currentStep = SuccOf[ev.currentStep]
    /\ ev.currentStep = "payment" =>
          /\ currentStep = "payment"
          /\ goNext(currentStep, completedSteps).currentStep = currentStep
          /\ goNext(currentStep, completedSteps).completedSteps = completedSteps
          /\ "payment" \in ev.completedSteps =>
                completedSteps = ev.completedSteps

\* the second of two advances at the last step has run
C1_Witness ==
  /\ ev.op = "goNext"
  /\ ev.currentStep = "payment"
  /\ ev.completedSteps = StepIds
  /\ currentStep = "payment"
  /\ completedSteps = StepIds

\* C2: jumpTo (goToStep) leaves currentStep and completedSteps alone unless
\* its target is currentStep or a completed step, and then it sets
\* currentStep to the target and leaves completedSteps alone; jumpTo of
\* balance at connect with nothing completed stays at connect.
C2_JumpTo ==
  ev.op = "goToStep" =>
    /\ completedSteps = ev.completedSteps
    /\ currentStep = IF ev.arg = ev.currentStep \/ ev.arg \in ev.completedSteps
                     THEN ev.arg
                     ELSE ev.currentStep

\* jumpTo('balance') was called at connect with nothing completed
C2_Witness ==
  /\ ev.op = "goToStep"
  /\ ev.arg = "balance"
  /\ ev.currentStep = "connect"
  /\ ev.completedSteps = {}
  /\ currentStep = "connect"

\* a jump to a completed step other than the current one took effect
C2_WitnessEffect ==
  /\ ev.op = "goToStep"
  /\ ev.arg # ev.currentStep
  /\ ev.arg \in ev.completedSteps
  /\ currentStep = ev.arg

\* C3: retreat (goPrev), from any state, sets currentStep to its predecessor
\* in the order, or changes nothing at connect; completedSteps is left
\* exactly as it was.
C3_Retreat ==
  ev.op = "goPrev" =>
    /\ completedSteps = ev.completedSteps
    /\ currentStep = IF ev.currentStep = "connect" THEN "connect"
                     ELSE PredOf[ev.currentStep]

\* a retreat from a step that was already completed
C3_Witness ==
  /\ ev.op = "goPrev"
  /\ ev.currentStep = "balance"
  /\ "balance" \in ev.completedSteps
  /\ currentStep = "trustline"
  /\ "balance" \in completedSteps

\* a retreat at the first step
C3_WitnessFirst ==
  ev.op = "goPrev" /\ ev.currentStep = "connect" /\ ev.completedSteps # {}

\* C4: reset (resetFlow), whatever the state before it, ends with
\* currentStep = connect, completedSteps empty and the identity empty.
C4_Reset ==
  ev.op = "resetFlow" =>
    /\ currentStep = "connect"
    /\ completedSteps = {}
    /\ publicKey = NoAddress

\* a reset from an advanced state with an identity
C4_Witness ==
  /\ ev.op = "resetFlow"
  /\ ev.currentStep = "payment"
  /\ ev.completedSteps # {}
  /\ ev.publicKey # NoAddress
  /\ publicKey = NoAddress

\* C5: canAdvance (canProceed) is true exactly when currentStep is not
\* connect, or the identity is non-empty; the "Continuar" control of the
\* connect step is enabled only when it is true, so no advance out of
\* connect is taken while the identity is empty.
C5_CanAdvance ==
  /\ canProceed(currentStep, publicKey)
       = (currentStep # "connect" \/ publicKey # NoAddress)
  /\ (currentStep = "connect" /\ ContinuarEnabled)
       => canProceed(currentStep, publicKey)
  /\ (ev.op = "goNext" /\ ev.currentStep = "connect")
       => ev.publicKey # NoAddress

\* an advance out of connect was taken
C5_Witness ==
  /\ ev.op = "goNext"
  /\ ev.currentStep = "connect"
  /\ ev.publicKey \in Addresses
  /\ currentStep = "trustline"

\* the connect step is shown with an empty identity after one was held
C5_WitnessGate ==
  /\ currentStep = "connect"
  /\ publicKey = NoAddress
  /\ ev.publicKey # NoAddress
  /\ ~ContinuarEnabled

\* the terminal condition: the last step reached and marked done
Terminal == currentStep = "payment" /\ "payment" \in completedSteps

\* C6: the terminal condition is reachable through the controls the page
\* offers (on the last step, either the step is already done or the
\* advance control that marks it done is enabled), and the machine does
\* not lock there: retreat moves to balance and a jump to any completed
\* step takes effect.
C6_TerminalReachable ==
  /\ currentStep = "payment" =>
        ("payment" \in completedSteps \/ ContinuarEnabled)
  /\ Terminal =>
        /\ AtrasOffered
        /\ goPrev(currentStep, completedSteps).currentStep = "balance"
        /\ \A i \in 1..Len(order) :
              steps[i].id \in completedSteps =>
                /\ canClick(steps, i)
                /\ goToStep(steps[i].id, currentStep,
                            completedSteps).currentStep = steps[i].id

\* what the page does instead: the last step is never marked done
C6_NeverTerminal == ~Terminal

\* the direct calls reach the terminal condition, and it does not lock
C6_NoLock ==
  (ev.op \in {"goPrev", "goToStep"} /\ ev.currentStep = "payment"
     /\ "payment" \in ev.completedSteps) =>
    currentStep = IF ev.op = "goPrev" THEN "balance"
                  ELSE IF ev.arg \in StepIds THEN ev.arg ELSE "payment"

\* C7: an advance never shrinks completedSteps and never moves currentStep
\* backward in the order; at payment it stays at payment.
C7_Monotonic ==
  [][ev'.op = "goNext" =>
       /\ completedSteps \subseteq completedSteps'
       /\ PosOf[currentStep'] >= PosOf[currentStep]
       /\ currentStep = "payment" => currentStep' = "payment"]_vars

\* advances have gone all the way and one more was made at the end
C7_Witness ==
  /\ ev.op = "goNext"
  /\ ev.currentStep = "payment"
  /\ currentStep = "payment"
  /\ completedSteps = StepIds
  /\ publicKey = NoAddress

\* C8: at connect canAdvance is false while the identity is empty and true
\* once it is set; the advance from connect with nothing completed gives
\* trustline and {connect}; from trustline with {connect} it gives balance
\* and {connect, trustline}, isPrimaryFlowComplete still false; from
\* balance with {connect, trustline} it gives payment and {connect,
\* trustline, balance}, isPrimaryFlowComplete true.
C8_Scenario ==
  /\ (currentStep = "connect" /\ completedSteps = {})
       => (canProceed(currentStep, publicKey) <=> publicKey \in Addresses)
  /\ (ev.op = "goNext" /\ ev.currentStep = "connect"
         /\ ev.completedSteps = {})
       => /\ currentStep = "trustline"
          /\ completedSteps = {"connect"}
  /\ (ev.op = "goNext" /\ ev.currentStep = "trustline"
         /\ ev.completedSteps = {"connect"})
       => /\ currentStep = "balance"
          /\ completedSteps = {"connect", "trustline"}
          /\ ~isFlowComplete(completedSteps)
  /\ (ev.op = "goNext" /\ ev.currentStep = "balance"
         /\ ev.completedSteps = {"connect", "trustline"})
       => /\ currentStep = "payment"
          /\ completedSteps = {"connect", "trustline", "balance"}
          /\ isFlowComplete(completedSteps)

\* the third advance of the chain has run
C8_Witness ==
  /\ ev.op = "goNext"
  /\ ev.currentStep = "balance"
  /\ ev.completedSteps = {"connect", "trustline"}
  /\ currentStep = "payment"
  /\ isFlowComplete(completedSteps)

\* C9: the status list handed to the Stepper gives every step id, in
\* order, the status done if it is in completedSteps, else active if it
\* is currentStep, else pending, for the current currentStep and
\* completedSteps (never a stale one).
C9_Status ==
  /\ Len(steps) = 4
  /\ \A i \in 1..4 :
       /\ PosOf[steps[i].id] = i
       /\ steps[i].status =
            (IF steps[i].id \in completedSteps THEN "done"
             ELSE IF steps[i].id = currentStep THEN "active"
             ELSE "pending")

\* a move back onto a completed step: the current step shows done and a
\* later completed step is still done
C9_Witness ==
  /\ ev.op \in {"goPrev", "goToStep"}
  /\ currentStep # ev.currentStep
  /\ currentStep \in completedSteps
  /\ \E i \in 1..4 : steps[i].id = currentStep /\ steps[i].status = "done"
  /\ \E i \in 1..4 : steps[i].status = "pending"

\* C10: the progress percentage of the Stepper is exactly
\* 100 * |completedSteps| / 4, one of 0, 25, 50, 75, 100.
C10_Progress ==
  /\ 4 * progressPercent(steps) = 100 * Cardinality(completedSteps)
  /\ progressPercent(steps) \in {0, 25, 50, 75, 100}

\* progress is shown with the current step already completed
C10_Witness ==
  /\ progressPercent(steps) = 75
  /\ currentStep \in completedSteps

\* C11: isPrimaryFlowComplete (isFlowComplete) is true exactly when balance
\* is in completedSteps, whether or not payment is; once true it becomes
\* false again only through reset.
C11_PrimaryFlow ==
  /\ isFlowComplete(completedSteps) <=> "balance" \in completedSteps
  /\ isFlowComplete(completedSteps \cup {"payment"})
       = isFlowComplete(completedSteps \ {"payment"})
  /\ (isFlowComplete(ev.completedSteps) /\ ~isFlowComplete(completedSteps))
       => ev.op = "resetFlow"

\* the primary flow is complete, not all steps are, and a retreat from the
\* balance step has left it so
C11_Witness ==
  /\ ev.op = "goPrev"
  /\ ev.currentStep = "balance"
  /\ isFlowComplete(ev.completedSteps)
  /\ isFlowComplete(completedSteps)
  /\ completedSteps # StepIds

\* C12: after any sequence of advance, retreat, jumpTo with any string,
\* reset and callbacks, currentStep is one of the four ids and
\* completedSteps holds only those ids.
C12_StepInSequence ==
  /\ currentStep \in {"connect", "trustline", "balance", "payment"}
  /\ completedSteps \subseteq {"connect", "trustline", "balance", "payment"}

\* jumpTo was called with a string that is not a step id
C12_Witness ==
  /\ ev.op = "goToStep"
  /\ ev.arg \notin StepIds
  /\ ev.completedSteps # {}
  /\ currentStep = ev.currentStep

\* C13: the Stepper lets a step be clicked only if its derived status is
\* done or active, and a jumpTo of a pending step changes neither
\* currentStep nor completedSteps.
C13_PendingNotNavigable ==
  /\ \A i \in 1..Len(steps) :
       canClick(steps, i) =>
         (steps[i].id \in completedSteps \/ steps[i].id = currentStep)
  /\ (ev.op = "goToStep" /\ ev.arg \notin ev.completedSteps
         /\ ev.arg # ev.currentStep)
       => /\ currentStep = ev.currentStep
          /\ completedSteps = ev.completedSteps

\* goToStep was called for a pending step, which the Stepper shows disabled
C13_Witness ==
  /\ ev.op = "goToStep"
  /\ ev.arg \in StepIds \ (ev.completedSteps \cup {ev.currentStep})
  /\ ev.completedSteps # {}
  /\ \E i \in 1..Len(steps) : steps[i].id = ev.arg /\ ~canClick(steps, i)

\* C14: after a retreat from a non-first step the previous step in the
\* order has status active, and the status of no step other than the old
\* and the new current step changes.
C14_RetreatActive ==
  (ev.op = "goPrev" /\ ev.currentStep # "connect") =>
    \A i \in 1..Len(steps) :
      /\ steps[i].id = PredOf[ev.currentStep] => steps[i].status = "active"
      /\ steps[i].id \notin {ev.currentStep, PredOf[ev.currentStep]} =>
           steps[i].status
             = getStepStatus(steps[i].id, ev.currentStep, ev.completedSteps)

\* what the page does instead: the step retreated to is shown done, and
\* no step is active
C14_RetreatDone ==
  (ev.op = "goPrev" /\ ev.currentStep # "connect") =>
    /\ currentStep = PredOf[ev.currentStep]
    /\ \A i \in 1..Len(steps) :
         /\ steps[i].id = currentStep => steps[i].status = "done"
         /\ steps[i].id \notin {ev.currentStep, currentStep} =>
              steps[i].status
                = getStepStatus(steps[i].id, ev.currentStep, ev.completedSteps)

\* ---------------------------------------------------------------- C15
LeafOps ==
  {"connectWallet", "checkConnection", "connectWalletDone",
   "createTrustline", "createTrustlineDone", "fetchBalance",
   "fetchBalanceDone", "sendPathPayment", "sendPathPaymentDone"}

\* C15: no event of a leaf view (the start of an external call or its
\* completion, whatever the wallet bridge, the ledger or the database
\* answered) changes currentStep or completedSteps, and a call that never
\* completes is no event at all; the step list handed to the Stepper is
\* the one of the unchanged state.
C15_ExternalCallsFrame ==
  ev.op \in LeafOps =>
    /\ currentStep = ev.currentStep
    /\ completedSteps = ev.completedSteps
    /\ steps = computeSteps(ev.currentStep, ev.completedSteps)

\* a trust creation has completed successfully on the trustline step, with
\* connect completed before it
C15_Witness ==
  /\ ev.op = "createTrustlineDone"
  /\ createTrustline(ev.arg).status = "success"
  /\ ev.currentStep = "trustline"
  /\ ev.completedSteps = {"connect"}
  /\ currentStep = "trustline"

\* a signature request has been declined while a payment was being sent
C15_WitnessRejected ==
  /\ ev.op = "sendPathPaymentDone"
  /\ ev.arg.sign = "declined"
  /\ currentStep = "payment"
  /\ pp.status = "error"

\* ---------------------------------------------------------------- C16
\* C16: when the ledger accepted the transaction and the database insert
\* that follows reports an error, createTrustline still ends with status
\* success (trustlineExists set, loading cleared) and still calls
\* onSuccess, which increments the refresh token; sendPathPayment still
\* ends with status success.
C16_DbFailureKeepsSuccess ==
  /\ (ev.op = "createTrustlineDone" /\ ev.arg.insert = "error") =>
       /\ refreshKey = ev.refreshKey + 1
       /\ ev.live =>
            ct = [loading |-> FALSE, trustlineExists |-> TRUE,
                  status |-> "success"]
  /\ (ev.op = "sendPathPaymentDone" /\ ev.arg.insert = "error") =>
       pp = [loading |-> FALSE, status |-> "success"]

\* the mounted CreateTrustline has completed a creation whose ledger
\* submission succeeded and whose database insert failed
C16_Witness ==
  /\ ev.op = "createTrustlineDone"
  /\ ev.live
  /\ ev.arg.submit \in Hashes
  /\ ev.arg.insert = "error"

\* the same for a payment
C16_WitnessPayment ==
  /\ ev.op = "sendPathPaymentDone"
  /\ ev.arg.submit \in Hashes
  /\ ev.arg.insert = "error"

\* ---------------------------------------------------------------- C17
\* the last event is the completion of a trust creation that the ledger
\* accepted
TrustCreated == ev.op = "createTrustlineDone" /\ ev.arg.submit \in Hashes

\* C17: in a session the refresh token changes only when a trust creation
\* completes with the ledger's acceptance, and then by exactly 1: a failed
\* or declined creation, the "already exists" outcome, navigation and reset
\* leave it alone; a successful creation changes nothing else of the wizard
\* state (currentStep, completedSteps, publicKey).
C17_RefreshToken ==
  /\ refreshKey # ev.refreshKey => TrustCreated
  /\ TrustCreated =>
       /\ refreshKey = ev.refreshKey + 1
       /\ currentStep = ev.currentStep
       /\ completedSteps = ev.completedSteps
       /\ publicKey = ev.publicKey

\* a second creation has succeeded: the token goes from 1 to 2
C17_Witness ==
  /\ TrustCreated
  /\ ev.refreshKey = 1
  /\ refreshKey = 2

\* the "already exists" outcome has left a token of 1 alone
C17_WitnessExists ==
  /\ ev.op = "createTrustlineDone"
  /\ createTrustline(ev.arg).status = "warning"
  /\ ev.refreshKey = 1
  /\ refreshKey = 1

\* a creation started by an instance since unmounted has succeeded
C17_WitnessOrphan == TrustCreated /\ ~ev.live /\ refreshKey = ev.refreshKey + 1

\* ---------------------------------------------------------------- C18
\* the table an action records itself in
tableOf(op) ==
  CASE op = "createTrustlineDone" -> "trustlines"
    [] op = "sendPathPaymentDone" -> "transactions"
    [] OTHER -> "none"

\* C18: the only calls any event makes on the database are select and
\* insert (no update, no delete); an insert goes to the table of the action
\* that makes it, happens at most once per action, and comes after a
\* submitTransaction of the same action that returned a hash, with that
\* submission's account as user_id and its hash as tx_hash.
C18_AppendOnlyAfterLedger ==
  \A i \in 1..Len(ev.effects) :
    LET e == ev.effects[i]
    IN /\ e.table # "" => e.call \in {"select", "insert"}
       /\ e.call \in {"select", "insert"} => e.table # ""
       /\ e.call = "insert" =>
            /\ e.table = tableOf(ev.op)
            /\ \A j \in 1..Len(ev.effects) :
                 ev.effects[j].call = "insert" => j = i
            /\ \E j \in 1..(i - 1) :
                 /\ ev.effects[j].call = "submitTransaction"
                 /\ ev.effects[j].hash \in Hashes
                 /\ ev.effects[j].hash = e.hash
                 /\ ev.effects[j].user = e.user

\* a payment has been recorded after the ledger accepted it
C18_Witness ==
  /\ ev.op = "sendPathPaymentDone"
  /\ \E i \in 1..Len(ev.effects) :
       /\ ev.effects[i].call = "insert"
       /\ ev.effects[i].table = "transactions"
       /\ ev.effects[i].hash = "h2"

\* a trust creation has been recorded after the ledger accepted it
C18_WitnessTrust ==
  /\ ev.op = "createTrustlineDone"
  /\ \E i \in 1..Len(ev.effects) :
       /\ ev.effects[i].call = "insert"
       /\ ev.effects[i].table = "trustlines"

\* the ledger has refused a payment: nothing is recorded
C18_WitnessRefused ==
  /\ ev.op = "sendPathPaymentDone"
  /\ ev.arg.submit = "fails"
  /\ \A i \in 1..Len(ev.effects) : ev.effects[i].call # "insert"

\* ---------------------------------------------------------------- C19
\* the last event is a wallet call that ended without an address: the
\* bridge is missing (the call throws), access is refused (error), or the
\* connected check finds no connection or no address
WalletFailed ==
  /\ ev.op \in {"checkConnection", "connectWalletDone"}
  /\ ev.arg \notin Addresses

\* C19: a wallet call that ends without an address does not reach Home:
\* the identity and the rest of the wizard state are as before and Home
\* does not re-render. With an empty identity the connect step still
\* cannot be left (canProceed false, "Continuar" disabled); on every
\* other step canProceed is true and the step's controls are offered as
\* without the failure.
C19_WalletFailure ==
  WalletFailed =>
    /\ publicKey = ev.publicKey
    /\ currentStep = ev.currentStep
    /\ completedSteps = ev.completedSteps
    /\ refreshKey = ev.refreshKey
    /\ ~ev.checkStarted
    /\ (currentStep = "connect" /\ ev.publicKey = NoAddress) =>
         ~canProceed(currentStep, publicKey) /\ ~ContinuarEnabled
    /\ currentStep # "connect" =>
         /\ canProceed(currentStep, publicKey)
         /\ AtrasOffered
         /\ currentStep \in {"trustline", "balance"} => ContinuarEnabled

\* the user asked to connect and access was refused, nothing connected yet
C19_Witness ==
  /\ ev.op = "connectWalletDone"
  /\ ev.arg \in {"error", "throws"}
  /\ ev.live
  /\ currentStep = "connect"
  /\ publicKey = NoAddress
  /\ wc.error

\* a wallet call failed after the user had moved on to another step
C19_WitnessElsewhere == WalletFailed /\ currentStep = "trustline"

\* the connected check found no address at session start
C19_WitnessCheck ==
  /\ ev.op = "checkConnection"
  /\ ev.arg \in {"notConnected", NoAddress}
  /\ publicKey = NoAddress

\* ---------------------------------------------------------------- C20
\* C20: the connected check (checkConnection) is started once, when the
\* session starts, and by no later event.
C20_CheckOnce == ev.checkStarted => ev.op = "init"

\* What the code does: the check starts again after every event that
\* leaves WalletConnect mounted with Home re-rendered (the effect depends on
\* onConnect, which Home re-creates on each render) and after every event
\* that brings the session back to the connect step (a new instance).
C20_CheckRestarts ==
  ev.checkStarted <=>
    \/ ev.op = "init"
    \/ currentStep = "connect" /\ ev.currentStep # "connect"
    \/ /\ currentStep = "connect"
       /\ \/ ev.op = "resetFlow"
          \/ publicKey # ev.publicKey
          \/ completedSteps # ev.completedSteps
          \/ refreshKey # ev.refreshKey

\* ---------------------------------------------------------------- C21
\* C21: when submitTransaction is rejected with an operation result code,
\* the status message is the fixed text of that code if it is one the
\* function knows (createTrustline: op_low_reserve, op_line_full,
\* op_malformed; sendPathPayment: its six codes), whatever the other
\* replies were, and otherwise the generic ledger-error text followed by
\* the raw code.
C21_LedgerCodeMessages ==
  /\ (ev.op = "createTrustlineDone"
        /\ ev.arg.submit \in TrustCodes \cup PayCodes) =>
       LET m == createTrustline(ev.arg).message
       IN /\ ev.live => ev.message = m /\ ct.status = "error"
          /\ ev.arg.submit \in TrustCodes =>
               m = <<ErrorMark>> \o trustCodeText(ev.arg.submit)
          /\ ev.arg.submit \notin TrustCodes =>
               /\ m = <<ErrorMark, "Error de Stellar:", ev.arg.submit>>
               /\ includes(m, <<ev.arg.submit>>)
  /\ (ev.op = "sendPathPaymentDone"
        /\ ev.arg.submit \in TrustCodes \cup PayCodes) =>
       LET m == sendPathPayment(ev.arg).message
       IN /\ ev.message = m /\ pp.status = "error"
          /\ ev.arg.submit \in PayCodes =>
               m = <<ErrorMark>> \o payCodeText(ev.arg.submit)
          /\ ev.arg.submit \notin PayCodes =>
               /\ m = <<ErrorMark, "Error de Stellar:", ev.arg.submit>>
               /\ includes(m, <<ev.arg.submit>>)

\* C21 as stated, for every result code a rejected submission can carry:
\* the operation's code, or the transaction's code when the rejection
\* names no operation (tx_bad_seq). A code the function does not know is
\* to appear in the generic message.
C21_RawCodeCarried ==
  /\ (ev.op = "createTrustlineDone" /\ ev.live
        /\ ev.arg.submit \in (PayCodes \cup {"tx_bad_seq"}) \ TrustCodes) =>
       includes(ev.message, <<"Error de Stellar:", ev.arg.submit>>)
  /\ (ev.op = "sendPathPaymentDone"
        /\ ev.arg.submit \in (TrustCodes \cup {"tx_bad_seq"}) \ PayCodes) =>
       includes(ev.message, <<"Error de Stellar:", ev.arg.submit>>)

\* what the generic message carries when the rejection names no operation
C21_NoOperationCode ==
  /\ (ev.op = "createTrustlineDone" /\ ev.live
        /\ ev.arg.submit = "tx_bad_seq") =>
       ev.message = <<ErrorMark, "Error de Stellar:", "Desconocido">>
  /\ (ev.op = "sendPathPaymentDone" /\ ev.arg.submit = "tx_bad_seq") =>
       ev.message = <<ErrorMark, "Error de Stellar:", Undefined>>

\* the ledger has refused a trust creation with op_line_full
C21_Witness ==
  /\ ev.op = "createTrustlineDone"
  /\ ev.live
  /\ ev.arg.submit = "op_line_full"
  /\ ev.message = <<ErrorMark, "Ya tienes la trustline creada.">>

\* the ledger has refused a payment with a code sendPathPayment does not
\* know
C21_WitnessOther ==
  /\ ev.op = "sendPathPaymentDone"
  /\ ev.arg.submit = "op_malformed"
  /\ ev.message = <<ErrorMark, "Error de Stellar:", "op_malformed">>

\* the ledger has refused a payment with a code sendPathPayment knows
C21_WitnessPayment ==
  /\ ev.op = "sendPathPaymentDone"
  /\ ev.arg.submit = "op_underfunded"
  /\ ev.message = <<ErrorMark, "Balance insuficiente">>

\* ---------------------------------------------------------------- C22
\* C22: when the wallet's signature error says 'User declined' or 'User
\* rejected', createTrustline and sendPathPayment end with an error status
\* whose message is the user-rejected text of that view: not the text of a
\* result code, not the generic ledger-error text, not the raw error text.
UserDeclined(s) ==
  /\ s.sign \in SignFailures
  /\ \/ includes(signText(s.sign), <<"User", "declined">>)
     \/ includes(signText(s.sign), <<"User", "rejected">>)

C22_UserRejected ==
  /\ (ev.op = "createTrustlineDone" /\ UserDeclined(ev.arg)) =>
       LET m == createTrustline(ev.arg).message
       IN /\ ev.live => ev.message = m /\ ct.status = "error"
          /\ m = <<ErrorMark>> \o TrustRejectedText
          /\ \A c \in TrustCodes : m # <<ErrorMark>> \o trustCodeText(c)
          /\ ~includes(m, <<"Error de Stellar:">>)
          /\ ~includes(m, signText(ev.arg.sign))
  /\ (ev.op = "sendPathPaymentDone" /\ UserDeclined(ev.arg)) =>
       LET m == sendPathPayment(ev.arg).message
       IN /\ ev.message = m /\ pp.status = "error"
          /\ m = <<ErrorMark>> \o PayRejectedText
          /\ \A c \in PayCodes : m # <<ErrorMark>> \o payCodeText(c)
          /\ ~includes(m, <<"Error de Stellar:">>)
          /\ ~includes(m, signText(ev.arg.sign))

\* the user has rejected the signature of a payment
C22_Witness ==
  /\ ev.op = "sendPathPaymentDone"
  /\ ev.arg.sign = "rejected"
  /\ ev.message = <<ErrorMark>> \o PayRejectedText
  /\ pp.status = "error"

\* the user has declined the signature of a trust creation
C22_WitnessTrust ==
  /\ ev.op = "createTrustlineDone"
  /\ ev.live
  /\ ev.arg.sign = "declined"
  /\ ev.message = <<ErrorMark>> \o TrustRejectedText

\* ---------------------------------------------------------------- C23
\* the calls of one kind among the external calls of the last event
callsOf(name) == {i \in 1..Len(ev.effects) : ev.effects[i].call = name}

\* C23: createTrustline asks the ledger for the account's balances and, if
\* the asset is not among them, the trustlines table for a matching row.
\* When either has it, the invocation ends with the warning status and
\* trustlineExists set, having asked for no signature, submitted nothing,
\* inserted nothing and not called onSuccess (refreshKey is unchanged).
\* When the check itself fails (loadAccount throws, or the select returns
\* an error) the invocation goes on to load the account for the
\* transaction.
C23_ExistingTrustChecked ==
  ev.op = "createTrustlineDone" =>
    /\ ev.arg.address \in Addresses =>
         /\ ev.effects[2].call = "loadAccount"
         /\ ev.arg.chain = "hasnot" =>
              /\ ev.effects[3].call = "select"
              /\ ev.effects[3].table = "trustlines"
              /\ ev.effects[3].user = ev.arg.address
    /\ (ev.arg.chain = "has" \/ ev.arg.select = "row") =>
         /\ callsOf("signTransaction") = {}
         /\ callsOf("submitTransaction") = {}
         /\ callsOf("insert") = {}
         /\ Cardinality(callsOf("loadAccount")) = 1
         /\ refreshKey = ev.refreshKey
         /\ ev.live =>
              /\ ct = [loading |-> FALSE, trustlineExists |-> TRUE,
                       status |-> "warning"]
              /\ ev.message = TrustWarningText
    /\ (ev.arg.chain = "throws" \/ ev.arg.select = "error") =>
         /\ Cardinality(callsOf("loadAccount")) = 2
         /\ ev.arg.load = "ok" => callsOf("signTransaction") # {}
         /\ ev.live => ct.status # "warning"

\* a row in the trustlines table has stopped a trust creation
C23_Witness ==
  /\ ev.op = "createTrustlineDone"
  /\ ev.live
  /\ ev.arg.chain = "hasnot"
  /\ ev.arg.select = "row"
  /\ ct.status = "warning"
  /\ ct.trustlineExists

\* the asset among the account's balances has stopped a trust creation
C23_WitnessChain ==
  /\ ev.op = "createTrustlineDone"
  /\ ev.live
  /\ ev.arg.chain = "has"
  /\ ct.status = "warning"

\* the check failed and the trust was created
C23_WitnessCheckFails ==
  /\ ev.op = "createTrustlineDone"
  /\ ev.live
  /\ ev.arg.chain = "throws"
  /\ ct.status = "success"
  /\ refreshKey = ev.refreshKey + 1

\* ---------------------------------------------------------------- C24
\* C24: completedSteps is always the first n steps of order for some n,
\* every step before currentStep is completed, and so every step whose
\* derived status is pending comes after currentStep.
C24_CompletedPrefix ==
  /\ \E n \in 0..Len(order) : completedSteps = {order[i] : i \in 1..n}
  /\ \A i \in 1..Len(order) :
       indexOf(order[i]) < indexOf(currentStep) => order[i] \in completedSteps
  /\ \A i \in 1..Len(order) :
       getStepStatus(order[i], currentStep, completedSteps) = "pending" =>
         indexOf(order[i]) > indexOf(currentStep)

\* the user has gone back from balance to connect: the completed steps
\* reach beyond the current one
C24_Witness ==
  /\ currentStep = "connect"
  /\ completedSteps = {"connect", "trustline"}
  /\ ev.op \in {"goPrev", "goToStep"}

\* the wizard has been walked to its end
C24_WitnessEnd ==
  /\ currentStep = "payment"
  /\ completedSteps = {"connect", "trustline", "balance"}

C25_ActiveUnlessCompleted ==
  /\ {steps[i].id : i \in {j \in 1..Len(steps) : steps[j].status = "active"}}
       = {currentStep} \ completedSteps
  /\ footerLabel(steps)
       = IF currentStep \in completedSteps
         THEN <<"Paso", 0, "de", Len(order)>>
         ELSE <<"Paso", indexOf(currentStep) + 1, "de", Len(order)>>

\* ---------------------------------------------------------------- C26
\* C26: with a wallet bridge that reports only non-empty addresses, in
\* every state the user can bring about, if currentStep is not connect or
\* connect is completed then publicKey is not empty: the trustline,
\* balance and payment views are never shown without an identity.
C26_IdentityBeyondConnect ==
  (currentStep # "connect" \/ "connect" \in completedSteps) =>
    publicKey # NoAddress

\* the user has left the connect step with Continuar
C26_Witness ==
  /\ ev.op = "goNext"
  /\ ev.currentStep = "connect"
  /\ currentStep = "trustline"
  /\ "connect" \in completedSteps
  /\ publicKey \in Addresses

\* the user has come back to the connect step, connect completed
C26_WitnessBack ==
  /\ currentStep = "connect"
  /\ "connect" \in completedSteps
  /\ publicKey \in Addresses

\* ---------------------------------------------------------------- C27
\* C27: after a reset publicKey stays empty until the user connects the
\* wallet again with connectWallet. A new connection takes two events (the
\* click and the bridge's answer), so in particular the event that follows
\* a reset never sets publicKey.
C27_EmptyAfterReset ==
  [][ev.op = "resetFlow" => publicKey' = NoAddress]_vars

\* ---------------------------------------------------------------- C28
\* C28: at most one createTrustline call is in flight at any time, the
\* calls of unmounted instances of the view included.
C28_OneTrustInFlight ==
  pend[<<"trust", Live>>] + pend[<<"trust", Orphan>>] <= 1

\* what the button's guard gives: at most one call in flight per mounted
\* instance, and the mounted instance is loading exactly while its call is
\* in flight
C28_OnePerInstance ==
  /\ pend[<<"trust", Live>>] <= 1
  /\ (currentStep = "trustline" /\ ct.loading) <=> pend[<<"trust", Live>>] = 1

\* ---------------------------------------------------------------- C29
\* an invocation of the mounted view has just ended with a status
TrustEnded ==
  /\ ev.op = "createTrustlineDone"
  /\ ev.live
  /\ ~ct.loading
  /\ ct.status \in {"success", "warning", "error"}
  /\ ev.message # NoText

PayEnded ==
  /\ ev.op \in {"sendPathPayment", "sendPathPaymentDone"}
  /\ ~pp.loading
  /\ pp.status \in {"success", "error"}
  /\ ev.message # NoText

\* loading is true only while a call of the mounted view is in flight, the
\* button is disabled while loading, and every completion leaves loading
\* false and a status with a message
LoadingWhileInFlight ==
  /\ ct.loading <=> pend[<<"trust", Live>>] > 0
  /\ pp.loading <=> pend[<<"pay", Live>>] > 0
  /\ ct.loading => ~CrearTrustlineEnabled
  /\ pp.loading => ~EnviarEnabled
  /\ (ev.op = "createTrustlineDone" /\ ev.live) => TrustEnded
  /\ (ev.op = "createTrustlineDone") =>
       /\ createTrustline(ev.arg).status \in {"success", "warning", "error"}
       /\ createTrustline(ev.arg).message # NoText
  /\ (ev.op = "sendPathPaymentDone") => PayEnded
  /\ (ev.op = "sendPathPayment" /\ ~amountValid(ev.arg)) => PayEnded

C29_WitnessPayment ==
  /\ PayEnded
  /\ ev.op = "sendPathPaymentDone"
  /\ pp.status = "success"

\* ---------------------------------------------------------------- C30
\* C30: sendPathPayment with an empty, zero or negative amount ends at once
\* with the error status and the amount message, having called neither the
\* wallet bridge nor the ledger gateway nor the database and leaving no
\* call in flight. With a valid amount, the destination of the payment
\* that is signed and submitted is the destination field, or the address
\* the wallet reported for the sender when the field is empty.
C30_AmountAndDestination ==
  /\ \A a \in {"", "0", "-1"} : ~amountValid(a)
  /\ (ev.op = "sendPathPayment" /\ ~amountValid(ev.arg)) =>
       /\ pp = [loading |-> FALSE, status |-> "error"]
       /\ ev.message = <<ErrorMark>> \o AmountText
       /\ ev.effects = <<>>
       /\ pend[<<"pay", Live>>] = 0
  /\ (ev.op = "sendPathPayment" /\ amountValid(ev.arg)) =>
       /\ pp.loading
       /\ pend[<<"pay", Live>>] = 1
  /\ ev.op = "sendPathPaymentDone" =>
       \A i \in 1..Len(ev.effects) :
         ev.effects[i].call \in {"signTransaction", "submitTransaction"} =>
           /\ ev.effects[i].dest # NoAddress
           /\ ev.effects[i].dest
                = IF ev.arg.destination = NoAddress THEN ev.arg.address
                  ELSE ev.arg.destination

\* a payment with an empty destination field has been submitted
C30_Witness ==
  /\ ev.op = "sendPathPaymentDone"
  /\ ev.arg.destination = NoAddress
  /\ \E i \in 1..Len(ev.effects) :
       /\ ev.effects[i].call = "submitTransaction"
       /\ ev.effects[i].dest = "GA"
       /\ ev.effects[i].user = "GA"

\* a payment of a negative amount has been refused
C30_WitnessAmount ==
  /\ ev.op = "sendPathPayment"
  /\ ev.arg = "-1"
  /\ pp.status = "error"
  /\ ev.effects = <<>>

\* a payment to another account has been submitted
C30_WitnessOther ==
  /\ ev.op = "sendPathPaymentDone"
  /\ \E i \in 1..Len(ev.effects) :
       /\ ev.effects[i].call = "submitTransaction"
       /\ ev.effects[i].dest = "GB"

====
